---- MODULE Spec2Model ----
(***************************************************************************)
(* Redis health monitor (monitor.py): the collection of the six INFO       *)
(* categories, the five health rules of check_health, the dashboard cycle  *)
(* of display_dashboard and the two run modes of main.                     *)
(*                                                                         *)
(* Numbers.  Python floats are kept as scaled integers:                    *)
(*   mem_fragmentation_ratio   reported in 1/1000, rounded to 1/100        *)
(*   used_memory / maxmemory   bytes, shown in 1/100 MB                    *)
(*   hit rate                  in 1/100 percent                            *)
(*   client usage              kept as the exact fraction connected/max    *)
(* An INFO reply is a Python dict: a function whose DOMAIN is the set of   *)
(* the fields the server reported.                                         *)
(***************************************************************************)
EXTENDS Integers, Sequences, FiniteSets, TLC

VARIABLES
    src,        \* what the server would answer now: category -> dict
    mode,       \* "once" (args.once) or "continuous"
    pc,         \* position of the single thread of control
    exit,       \* how the process ended, "running" while it has not
    shown,      \* what the current cycle has printed so far: section -> value
    checked,    \* the structures check_health has fetched in this cycle
    warnings,   \* the local list `warnings` of check_health
    slowFault,  \* slowlog_get raised in this cycle
    sleepLeft,  \* seconds of time.sleep(interval) still to go
    cycles,     \* calls of display_dashboard started so far
    changes     \* server-side changes so far

vars == <<src, mode, pc, exit, shown, checked, warnings, slowFault, sleepLeft, cycles, changes>>

(***************************************************************************)
(* Bounds of the exploration                                               *)
(***************************************************************************)
MaxCycles == 2
MaxChanges == 2

(***************************************************************************)
(* Program constants                                                       *)
(***************************************************************************)
DefaultMaxClients == 10000
DefaultInterval == 5
SlowLogCount == 5
MiB == 1024 * 1024
FragmentationLimit == 150    \* 1.5, in 1/100
ClientUsageLimit == 80
HitRateLimit == 8000         \* 80, in 1/100 percent
MinSamples == 100

(***************************************************************************)
(* Arithmetic helpers                                                      *)
(***************************************************************************)
\* round(num/den * 10^k) for the exact quotient, ties to even (Python round()).
RoundHalfEven(num, den) ==
    LET q == num \div den
        r == num % den
    IN  IF 2 * r < den THEN q
        ELSE IF 2 * r > den THEN q + 1
        ELSE IF q % 2 = 0 THEN q ELSE q + 1

\* dict.get(key, default)
Get(info, key, default) == IF key \in DOMAIN info THEN info[key] ELSE default

\* the dict `full` with only the keys in S
Restrict(full, S) == [k \in S |-> full[k]]

EmptyDict == [k \in {} |-> 0]

(***************************************************************************)
(* Collector: get_* as functions of the INFO reply                         *)
(***************************************************************************)
get_server_info(info) ==
    [version        |-> Get(info, "redis_version", "Unknown"),
     os             |-> Get(info, "os", "Unknown"),
     uptime_days    |-> Get(info, "uptime_in_days", 0),
     uptime_seconds |-> Get(info, "uptime_in_seconds", 0)]

get_memory_info(info) ==
    LET max_memory == Get(info, "maxmemory", 0)
        \* max_memory / MiB rounded to 2 places; None when max_memory <= 0
        max_memory_mb == IF max_memory > 0
                         THEN RoundHalfEven(max_memory * 100, MiB) ELSE 0
    IN  [used_memory_mb      |-> RoundHalfEven(Get(info, "used_memory", 0) * 100, MiB),
         used_memory_human   |-> Get(info, "used_memory_human", "N/A"),
         \* `if max_memory_mb`: None is falsy
         maxmemory_mb        |-> IF max_memory > 0 THEN <<max_memory_mb>> ELSE <<"Not set">>,
         fragmentation_ratio |-> RoundHalfEven(Get(info, "mem_fragmentation_ratio", 0), 10),
         evicted_keys        |-> Get(info, "evicted_keys", 0)]

get_stats(info) ==
    [total_connections    |-> Get(info, "total_connections_received", 0),
     total_commands       |-> Get(info, "total_commands_processed", 0),
     ops_per_sec          |-> Get(info, "instantaneous_ops_per_sec", 0),
     rejected_connections |-> Get(info, "rejected_connections", 0),
     keyspace_hits        |-> Get(info, "keyspace_hits", 0),
     keyspace_misses      |-> Get(info, "keyspace_misses", 0)]

get_hit_rate(stats) ==
    LET hits   == stats.keyspace_hits
        misses == stats.keyspace_misses
        total  == hits + misses
    IN  IF total = 0 THEN 0 ELSE RoundHalfEven(hits * 10000, total)

\* the fault of a smaller default for maxclients
get_clients_info_small_default(info) ==
    [connected_clients |-> Get(info, "connected_clients", 0),
     blocked_clients   |-> Get(info, "blocked_clients", 0),
     max_clients       |-> Get(info, "maxclients", 1000)]

\* the fault of defaulting maxclients like the counters, to 0
get_clients_info_zero_default(info) ==
    [connected_clients |-> Get(info, "connected_clients", 0),
     blocked_clients   |-> Get(info, "blocked_clients", 0),
     max_clients       |-> Get(info, "maxclients", 0)]

get_clients_info(info) ==
    [connected_clients |-> Get(info, "connected_clients", 0),
     blocked_clients   |-> Get(info, "blocked_clients", 0),
     max_clients       |-> Get(info, "maxclients", DefaultMaxClients)]

get_replication_info(info) ==
    LET role == Get(info, "role", "unknown")
    IN  IF role = "master"
        THEN [role |-> role, connected_slaves |-> Get(info, "connected_slaves", 0)]
        ELSE IF role = "slave"
        THEN [role |-> role,
              master_link_status |-> Get(info, "master_link_status", "unknown"),
              master_host        |-> Get(info, "master_host", "unknown")]
        ELSE [role |-> role]

get_persistence_info(info) ==
    [rdb_enabled             |-> Get(info, "rdb_bgsave_in_progress", 0) = 0,
     rdb_last_save           |-> Get(info, "rdb_last_save_time", 0),
     aof_enabled             |-> Get(info, "aof_enabled", 0) = 1,
     aof_rewrite_in_progress |-> Get(info, "aof_rewrite_in_progress", 0) = 1]

(***************************************************************************)
(* Analyzer: the five rules of check_health, each appending to the list    *)
(* built so far.  A warning is <<message, value>>; the replication message *)
(* carries no value.                                                       *)
(***************************************************************************)
\* the fault of `>=` for `>` in the fragmentation rule
MemoryWarnings_ge(ws, memory) ==
    LET w1 == IF memory.fragmentation_ratio >= FragmentationLimit
              THEN Append(ws, <<"High memory fragmentation", memory.fragmentation_ratio>>)
              ELSE ws
    IN  IF memory.evicted_keys > 0
        THEN Append(w1, <<"Keys being evicted", memory.evicted_keys>>)
        ELSE w1

MemoryWarnings(ws, memory) ==
    LET w1 == IF memory.fragmentation_ratio > FragmentationLimit
              THEN Append(ws, <<"High memory fragmentation", memory.fragmentation_ratio>>)
              ELSE ws
    IN  IF memory.evicted_keys > 0
        THEN Append(w1, <<"Keys being evicted", memory.evicted_keys>>)
        ELSE w1

\* connected / max raises ZeroDivisionError when max_clients is 0
ClientUsageFaults(clients) == clients.max_clients = 0

\* (connected / max) * 100 > 80, for max > 0; the message shows one decimal
ClientWarnings(ws, clients) ==
    IF clients.connected_clients * 100 > ClientUsageLimit * clients.max_clients
    THEN Append(ws, <<"High client usage",
                      RoundHalfEven(clients.connected_clients * 1000, clients.max_clients)>>)
    ELSE ws

\* the fault of `elif`: the hit-rate rule is skipped once a warning was given
HitRateWarnings_elif(ws, stats) ==
    LET hit_rate == get_hit_rate(stats)
    IN  IF ws = <<>>
           /\ hit_rate < HitRateLimit
           /\ stats.keyspace_hits + stats.keyspace_misses > MinSamples
        THEN Append(ws, <<"Low cache hit rate", hit_rate>>)
        ELSE ws

\* the fault of `>=` for `>` in the sample-size guard
HitRateWarnings_ge(ws, stats) ==
    LET hit_rate == get_hit_rate(stats)
    IN  IF hit_rate < HitRateLimit
           /\ stats.keyspace_hits + stats.keyspace_misses >= MinSamples
        THEN Append(ws, <<"Low cache hit rate", hit_rate>>)
        ELSE ws

HitRateWarnings(ws, stats) ==
    LET hit_rate == get_hit_rate(stats)
    IN  IF hit_rate < HitRateLimit
           /\ stats.keyspace_hits + stats.keyspace_misses > MinSamples
        THEN Append(ws, <<"Low cache hit rate", hit_rate>>)
        ELSE ws

\* repl.get('master_link_status') is None when the key is missing
ReplicationWarnings(ws, repl) ==
    IF repl.role = "slave" /\ Get(repl, "master_link_status", "None") # "up"
    THEN Append(ws, <<"Replication link DOWN">>)
    ELSE ws

(***************************************************************************)
(* The metrics source                                                      *)
(***************************************************************************)
Categories == {"server", "memory", "stats", "clients", "replication", "persistence"}

\* redis.info(section) and redis.ping() raise ConnectionError when the server is
\* unreachable
InfoFaults(s) == ~s.up

\* the fault of a missing try/except around slowlog_get
get_slow_log_unguarded(s, count) ==
    IF s.up /\ s.slowlog_ok
    THEN [raised |-> FALSE,
          value  |-> SubSeq(s.slowlog, 1, IF Len(s.slowlog) < count THEN Len(s.slowlog) ELSE count)]
    ELSE [raised |-> TRUE, value |-> <<>>]

\* get_slow_log: slowlog_get(count) inside try/except Exception -> []
get_slow_log(s, count) ==
    IF s.up /\ s.slowlog_ok
    THEN [raised |-> FALSE,
          value  |-> SubSeq(s.slowlog, 1, IF Len(s.slowlog) < count THEN Len(s.slowlog) ELSE count)]
    ELSE [raised |-> FALSE, value |-> <<>>]

\* the fault of a loop without `except KeyboardInterrupt`
OnKeyboardInterrupt_uncaught(m, p) == "KeyboardInterrupt"

\* What becomes of a KeyboardInterrupt raised at position p in mode m:
\* monitor_continuous catches it and calls sys.exit(0); nothing else does.
OnKeyboardInterrupt(m, p) ==
    IF m = "continuous" /\ p # "connect" THEN "sys.exit(0)" ELSE "KeyboardInterrupt"

(***************************************************************************)
(* Replies the source can give.  Full(cat) holds replies with every field  *)
(* of the category; a real reply is one of them restricted to the fields   *)
(* the server chose to report.                                             *)
(***************************************************************************)
Full(cat) ==
    CASE cat = "server" ->
           [redis_version : {"7.2.4"}, os : {"Linux"},
            uptime_in_days : {3}, uptime_in_seconds : {259200}]
      [] cat = "memory" ->
           [used_memory : {5242880}, used_memory_human : {"5.00M"},
            maxmemory : {0, 10485760},
            mem_fragmentation_ratio : {1100, 1500, 1504, 1505, 1506, 1510},
            evicted_keys : {0, 3}]
      [] cat = "stats" ->
           [total_connections_received : {12}, total_commands_processed : {3400},
            instantaneous_ops_per_sec : {7}, rejected_connections : {0},
            keyspace_hits : {0, 20, 80, 81, 15999},
            keyspace_misses : {0, 20, 21, 80, 4000}]
      [] cat = "clients" ->
           [connected_clients : {0, 8, 9, 8000, 8001}, blocked_clients : {1},
            maxclients : {0, 10, 10000}]
      [] cat = "replication" ->
           [role : {"master", "slave", "sentinel"}, connected_slaves : {1},
            master_link_status : {"up", "down"}, master_host : {"10.0.0.1"}]
      [] cat = "persistence" ->
           [rdb_bgsave_in_progress : {0, 1}, rdb_last_save_time : {0, 1700000000},
            aof_enabled : {0, 1}, aof_rewrite_in_progress : {0, 1}]

Fields(cat) ==
    CASE cat = "server" -> {"redis_version", "os", "uptime_in_days", "uptime_in_seconds"}
      [] cat = "memory" -> {"used_memory", "used_memory_human", "maxmemory",
                            "mem_fragmentation_ratio", "evicted_keys"}
      [] cat = "stats" -> {"total_connections_received", "total_commands_processed",
                           "instantaneous_ops_per_sec", "rejected_connections",
                           "keyspace_hits", "keyspace_misses"}
      [] cat = "clients" -> {"connected_clients", "blocked_clients", "maxclients"}
      [] cat = "replication" -> {"role", "connected_slaves", "master_link_status",
                                 "master_host"}
      [] cat = "persistence" -> {"rdb_bgsave_in_progress", "rdb_last_save_time",
                                 "aof_enabled", "aof_rewrite_in_progress"}

\* every reply of the category: every choice of values, every subset of fields
Replies(cat) == {Restrict(full, S) : full \in Full(cat), S \in SUBSET Fields(cat)}

\* a complete reply of a healthy server, and of a server that trips the rules
Healthy(cat) ==
    CASE cat = "server" -> CHOOSE r \in Full(cat) : TRUE
      [] cat = "memory" -> CHOOSE r \in Full(cat) :
              r.mem_fragmentation_ratio = 1100 /\ r.evicted_keys = 0 /\ r.maxmemory = 0
      [] cat = "stats" -> CHOOSE r \in Full(cat) :
              r.keyspace_hits = 15999 /\ r.keyspace_misses = 20
      [] cat = "clients" -> CHOOSE r \in Full(cat) :
              r.connected_clients = 8 /\ r.maxclients = 10000
      [] cat = "replication" -> CHOOSE r \in Full(cat) :
              r.role = "master" /\ r.master_link_status = "up"
      [] cat = "persistence" -> CHOOSE r \in Full(cat) :
              r.rdb_bgsave_in_progress = 0 /\ r.rdb_last_save_time = 0
              /\ r.aof_enabled = 0 /\ r.aof_rewrite_in_progress = 0

Ailing(cat) ==
    CASE cat = "memory" ->
           {[Healthy(cat) EXCEPT !.mem_fragmentation_ratio = 1510],
            [Healthy(cat) EXCEPT !.evicted_keys = 3],
            [Healthy(cat) EXCEPT !.mem_fragmentation_ratio = 1510, !.evicted_keys = 3]}
      [] cat = "stats" ->
           {[Healthy(cat) EXCEPT !.keyspace_hits = 20, !.keyspace_misses = 4000]}
      [] cat = "clients" ->
           {[Healthy(cat) EXCEPT !.connected_clients = 9, !.maxclients = 10]}
      [] cat = "replication" ->
           {[Healthy(cat) EXCEPT !.role = "slave", !.master_link_status = "down"]}
      [] OTHER -> {}

SlowEntries == {<<>>, <<[duration |-> 12000, command |-> <<"KEYS", "*">>]>>}

(***************************************************************************)
(* main: RedisHealthMonitor.__init__ pings the server, then run_once or    *)
(* monitor_continuous calls display_dashboard.                             *)
(***************************************************************************)
\* the state every run starts in, for the source state s
Start(s, modes) ==
    /\ src = s
    /\ mode \in modes
    /\ pc = "connect"
    /\ exit = "running"
    /\ shown = EmptyDict
    /\ checked = EmptyDict
    /\ warnings = <<>>
    /\ slowFault = FALSE
    /\ sleepLeft = 0
    /\ cycles = 0
    /\ changes = 0

\* an exception nobody catches ends the process
Raise(e) ==
    /\ pc' = "exited"
    /\ exit' = e
    /\ UNCHANGED <<src, mode, shown, checked, warnings, slowFault, sleepLeft, cycles, changes>>

\* a section of the dashboard is fetched and printed
Show(section, value, next) ==
    /\ shown' = (section :> value) @@ shown
    /\ pc' = next
    /\ UNCHANGED <<src, mode, exit, checked, warnings, slowFault, sleepLeft, cycles, changes>>

\* check_health fetches a structure and applies its rules
Check(section, value, ws, next) ==
    /\ checked' = (section :> value) @@ checked
    /\ warnings' = ws
    /\ pc' = next
    /\ UNCHANGED <<src, mode, exit, shown, slowFault, sleepLeft, cycles, changes>>

\* __init__: ping; any failure prints a message and calls sys.exit(1)
Connect ==
    /\ pc = "connect"
    /\ IF InfoFaults(src)
       THEN /\ pc' = "exited"
            /\ exit' = "sys.exit(1)"
            /\ UNCHANGED <<cycles, shown>>
       ELSE /\ pc' = "server"
            /\ cycles' = 1
            /\ shown' = EmptyDict
            /\ exit' = exit
    /\ UNCHANGED <<src, mode, checked, warnings, slowFault, sleepLeft, changes>>

ShowServer ==
    /\ pc = "server"
    /\ IF InfoFaults(src) THEN Raise("ConnectionError")
       ELSE Show("server", get_server_info(src.server), "memory")

ShowMemory ==
    /\ pc = "memory"
    /\ IF InfoFaults(src) THEN Raise("ConnectionError")
       ELSE Show("memory", get_memory_info(src.memory), "stats")

ShowStats ==
    /\ pc = "stats"
    /\ IF InfoFaults(src) THEN Raise("ConnectionError")
       ELSE LET stats == get_stats(src.stats)
            IN  Show("stats", [stats |-> stats, hit_rate |-> get_hit_rate(stats)], "clients")

ShowClients ==
    /\ pc = "clients"
    /\ IF InfoFaults(src) THEN Raise("ConnectionError")
       ELSE Show("clients", get_clients_info(src.clients), "replication")

ShowReplication ==
    /\ pc = "replication"
    /\ IF InfoFaults(src) THEN Raise("ConnectionError")
       ELSE Show("replication", get_replication_info(src.replication), "persistence")

ShowPersistence ==
    /\ pc = "persistence"
    /\ IF InfoFaults(src) THEN Raise("ConnectionError")
       ELSE Show("persistence", get_persistence_info(src.persistence), "slow_log")

\* slow_queries = self.get_slow_log(5); then check_health starts with warnings = []
ShowSlowLog ==
    /\ pc = "slow_log"
    /\ LET r == get_slow_log(src, SlowLogCount)
       IN  IF r.raised THEN Raise("ConnectionError")
           ELSE /\ shown' = ("slow_queries" :> r.value) @@ shown
                /\ slowFault' = ~(src.up /\ src.slowlog_ok)
                /\ pc' = "health_memory"
                /\ warnings' = <<>>
                /\ checked' = EmptyDict
                /\ UNCHANGED <<src, mode, exit, sleepLeft, cycles, changes>>

HealthMemory ==
    /\ pc = "health_memory"
    /\ IF InfoFaults(src) THEN Raise("ConnectionError")
       ELSE LET memory == get_memory_info(src.memory)
            IN  Check("memory", memory, MemoryWarnings(warnings, memory), "health_clients")

HealthClients ==
    /\ pc = "health_clients"
    /\ IF InfoFaults(src) THEN Raise("ConnectionError")
       ELSE LET clients == get_clients_info(src.clients)
            IN  IF ClientUsageFaults(clients) THEN Raise("ZeroDivisionError")
                ELSE Check("clients", clients, ClientWarnings(warnings, clients), "health_stats")

HealthStats ==
    /\ pc = "health_stats"
    /\ IF InfoFaults(src) THEN Raise("ConnectionError")
       ELSE LET stats == get_stats(src.stats)
            IN  Check("stats", stats, HitRateWarnings(warnings, stats), "health_replication")

HealthReplication ==
    /\ pc = "health_replication"
    /\ IF InfoFaults(src) THEN Raise("ConnectionError")
       ELSE LET repl == get_replication_info(src.replication)
            IN  Check("replication", repl, ReplicationWarnings(warnings, repl), "print_warnings")

\* the warnings (or ALL HEALTH CHECKS PASSED) are printed and display_dashboard
\* returns: run_once returns to main, monitor_continuous goes to sleep
PrintWarnings ==
    /\ pc = "print_warnings"
    /\ shown' = ("warnings" :> warnings) @@ shown
    /\ IF mode = "once"
       THEN pc' = "exited" /\ exit' = "return" /\ sleepLeft' = sleepLeft
       ELSE pc' = "sleep" /\ exit' = exit /\ sleepLeft' = DefaultInterval
    /\ UNCHANGED <<src, mode, checked, warnings, slowFault, cycles, changes>>

\* time.sleep(interval), one second at a time
Sleep ==
    /\ pc = "sleep"
    /\ sleepLeft > 0
    /\ sleepLeft' = sleepLeft - 1
    /\ UNCHANGED <<src, mode, pc, exit, shown, checked, warnings, slowFault, cycles, changes>>

\* while True: the next display_dashboard starts on a cleared screen
NextCycle ==
    /\ pc = "sleep"
    /\ sleepLeft = 0
    /\ cycles < MaxCycles
    /\ pc' = "server"
    /\ cycles' = cycles + 1
    /\ shown' = EmptyDict
    /\ checked' = EmptyDict
    /\ warnings' = <<>>
    /\ slowFault' = FALSE
    /\ UNCHANGED <<src, mode, exit, sleepLeft, changes>>

\* Ctrl+C: KeyboardInterrupt is raised wherever the thread is
Cancel ==
    /\ pc # "exited"
    /\ pc' = "exited"
    /\ exit' = OnKeyboardInterrupt(mode, pc)
    /\ UNCHANGED <<src, mode, shown, checked, warnings, slowFault, sleepLeft, cycles, changes>>

(***************************************************************************)
(* The server, which changes while the monitor runs                        *)
(***************************************************************************)
ServerChange ==
    /\ pc # "exited"
    /\ changes < MaxChanges
    /\ changes' = changes + 1
    /\ \E cat \in Categories : \E r \in {Healthy(cat)} \cup Ailing(cat) :
          /\ r # src[cat]
          /\ src' = [src EXCEPT ![cat] = r]
    /\ UNCHANGED <<mode, pc, exit, shown, checked, warnings, slowFault, sleepLeft, cycles>>

\* the server becomes unreachable, or reachable again
Outage ==
    /\ pc # "exited"
    /\ changes < MaxChanges
    /\ changes' = changes + 1
    /\ src' = [src EXCEPT !.up = ~src.up]
    /\ UNCHANGED <<mode, pc, exit, shown, checked, warnings, slowFault, sleepLeft, cycles>>

\* the steps of run_once; monitor_continuous adds the sleep and the loop
Once ==
    \/ Connect
    \/ ShowServer \/ ShowMemory \/ ShowStats \/ ShowClients
    \/ ShowReplication \/ ShowPersistence \/ ShowSlowLog
    \/ HealthMemory \/ HealthClients \/ HealthStats \/ HealthReplication
    \/ PrintWarnings

Step == Once \/ Sleep \/ NextCycle

(***************************************************************************)
(* Spec: the whole program against a server that changes, goes away and    *)
(* comes back, with Ctrl+C at any moment.                                  *)
(***************************************************************************)
Init ==
    \E s \in [server : {Healthy("server")},
              memory : {Healthy("memory")},
              stats : {Healthy("stats")},
              clients : {Healthy("clients")},
              replication : {Healthy("replication")} \cup Ailing("replication"),
              persistence : {Healthy("persistence")},
              up : BOOLEAN, slowlog_ok : BOOLEAN, slowlog : SlowEntries] : Start(s, {"once", "continuous"})

Next == Step \/ Cancel \/ ServerChange \/ Outage

Spec == Init /\ [][Next]_vars

(***************************************************************************)
(* SpecRules: one --once run against a reachable server that does not      *)
(* change.  One category gives any reply at all (any values, any subset of *)
(* its fields); the others are silent or trip their rules, so that every   *)
(* reply is met in every combination of the other rules' outcomes.         *)
(***************************************************************************)
Other(cat) == {EmptyDict} \cup Ailing(cat)

InitRules ==
    \E focus \in Categories :
        \E s \in [server : IF focus = "server" THEN Replies("server") ELSE Other("server"),
                  memory : IF focus = "memory" THEN Replies("memory") ELSE Other("memory"),
                  stats : IF focus = "stats" THEN Replies("stats") ELSE Other("stats"),
                  clients : IF focus = "clients" THEN Replies("clients") ELSE Other("clients"),
                  replication : IF focus = "replication" THEN Replies("replication")
                                ELSE Other("replication"),
                  persistence : IF focus = "persistence" THEN Replies("persistence")
                                ELSE Other("persistence"),
                  up : {TRUE}, slowlog_ok : {TRUE}, slowlog : {<<>>}] : Start(s, {"once"})

SpecRules == InitRules /\ [][Once]_vars

(***************************************************************************)
(* The rules as the design states them (section 4.2), written over one     *)
(* snapshot and independently of check_health: which rules trigger, and    *)
(* the warning each one gives, in the fixed order.                         *)
(***************************************************************************)
RuleOrder ==
    <<"High memory fragmentation", "Keys being evicted", "High client usage",
      "Low cache hit rate", "Replication link DOWN">>

Triggered(rule, snap) ==
    CASE rule = "High memory fragmentation" ->
           snap.memory.fragmentation_ratio > 150
      [] rule = "Keys being evicted" ->
           snap.memory.evicted_keys > 0
      [] rule = "High client usage" ->
           /\ snap.clients.max_clients > 0
           /\ snap.clients.connected_clients * 100 > 80 * snap.clients.max_clients
      [] rule = "Low cache hit rate" ->
           LET h == snap.stats.keyspace_hits
               t == snap.stats.keyspace_hits + snap.stats.keyspace_misses
           \* the rate rounded to 2 places is below 80.00 iff the rate is below 79.995
           IN  t > 100 /\ 20000 * h < 15999 * t
      [] rule = "Replication link DOWN" ->
           /\ snap.replication.role = "slave"
           /\ snap.replication.master_link_status # "up"

WarningFor(rule, snap) ==
    CASE rule = "High memory fragmentation" -> <<rule, snap.memory.fragmentation_ratio>>
      [] rule = "Keys being evicted" -> <<rule, snap.memory.evicted_keys>>
      [] rule = "High client usage" ->
           <<rule, RoundHalfEven(snap.clients.connected_clients * 1000,
                                 snap.clients.max_clients)>>
      [] rule = "Low cache hit rate" ->
           <<rule, RoundHalfEven(snap.stats.keyspace_hits * 10000,
                                 snap.stats.keyspace_hits + snap.stats.keyspace_misses)>>
      [] rule = "Replication link DOWN" -> <<rule>>

Fired(snap) == LET T(rule) == Triggered(rule, snap) IN SelectSeq(RuleOrder, T)

Analyze(snap) == LET f == Fired(snap) IN [i \in 1..Len(f) |-> WarningFor(f[i], snap)]

\* the messages of a warning list, in order
Messages(ws) == [i \in 1..Len(ws) |-> ws[i][1]]

Warns(ws, rule) == \E i \in 1..Len(ws) : ws[i][1] = rule

\* the four structures the dashboard of this cycle shows
ShownSnapshot ==
    [memory |-> shown.memory, clients |-> shown.clients,
     stats |-> shown.stats.stats, replication |-> shown.replication]

\* the cycle has printed its warnings
Presented == "warnings" \in DOMAIN shown

\* check_health has returned its list
Returned == pc = "print_warnings"

(***************************************************************************)
(* Claims                                                                  *)
(***************************************************************************)

\* C1: in continuous mode a fault raised by the metrics source during a cycle
\* does not end the monitor: the process never dies of the source's fault.
C1_ContinuousSurvivesFault ==
    mode = "continuous" => exit # "ConnectionError"

\* C2: the warnings a cycle presents are the ones the fixed rules give for the
\* memory, stats, clients and replication values the same cycle shows.
C2_WarningsMatchShown ==
    Presented => shown.warnings = Analyze(ShownSnapshot)

\* C3: the list check_health returns holds exactly one warning per triggered rule
\* and none for an untriggered one, in the fixed order; it is empty when no rule
\* triggers.
C3_OneWarningPerRuleInOrder ==
    Returned => Messages(warnings) = Fired(checked)

C3_Witness ==
    /\ Returned
    /\ Messages(warnings) = <<"High memory fragmentation", "Replication link DOWN">>

\* the raw value the source reports for a field, or `default` when it reports none
Reported(cat, field, default) == Get(src[cat], field, default)

\* C4 (as claimed): the fragmentation warning is emitted iff the ratio the source
\* reports is greater than 1.5, however slightly.
C4_WarnsIffReportedAboveLimit ==
    ("memory" \in DOMAIN checked /\ "mem_fragmentation_ratio" \in DOMAIN src.memory)
    => (Warns(warnings, "High memory fragmentation")
        <=> src.memory.mem_fragmentation_ratio > 1500)

\* C4 (amended): the fragmentation warning is emitted iff the reported ratio,
\* rounded to two decimals, is greater than 1.5, that is iff it is above 1.505;
\* a ratio that rounds to 1.50 (1.504, 1.505) gives none.
C4_WarnsIffRoundedAboveLimit ==
    ("memory" \in DOMAIN checked /\ "mem_fragmentation_ratio" \in DOMAIN src.memory)
    => (Warns(warnings, "High memory fragmentation")
        <=> src.memory.mem_fragmentation_ratio > 1505)

C4_Witness ==
    /\ "memory" \in DOMAIN checked
    /\ "mem_fragmentation_ratio" \in DOMAIN src.memory
    /\ src.memory.mem_fragmentation_ratio = 1504
    /\ ~Warns(warnings, "High memory fragmentation")

\* C5: the hit-rate warning is emitted only when the rounded hit rate is below 80
\* and hits+misses is above 100; with hits+misses of 100 or less, 0 included,
\* none is emitted; and evaluating the rule never faults (the run goes on to the
\* replication rule).
C5_HitRateWarningGuarded ==
    LET h == Reported("stats", "keyspace_hits", 0)
        t == h + Reported("stats", "keyspace_misses", 0)
    IN  /\ ("stats" \in DOMAIN checked /\ Warns(warnings, "Low cache hit rate"))
           => (t > 100 /\ 20000 * h < 15999 * t)
        /\ ("stats" \in DOMAIN checked /\ t <= 100)
           => ~Warns(warnings, "Low cache hit rate")
        /\ "clients" \in DOMAIN checked => exit \in {"running", "return"}
        /\ (pc = "exited" /\ "clients" \in DOMAIN checked) => "stats" \in DOMAIN checked

C5_Witness ==
    /\ "stats" \in DOMAIN checked
    /\ Reported("stats", "keyspace_hits", 0) = 20
    /\ Reported("stats", "keyspace_misses", 0) = 80
    /\ ~Warns(warnings, "Low cache hit rate")

\* C6: the client-saturation warning is emitted iff connected/max * 100 > 80
\* (exactly 80% gives none), max being 10000 when the source reports no maxclients.
C6_ClientWarningIffAbove80 ==
    LET c == Reported("clients", "connected_clients", 0)
        m == Reported("clients", "maxclients", 10000)
    IN  "clients" \in DOMAIN checked
        => (Warns(warnings, "High client usage") <=> c * 100 > 80 * m)

C6_Witness ==
    /\ "clients" \in DOMAIN checked
    /\ "maxclients" \notin DOMAIN src.clients
    /\ Reported("clients", "connected_clients", 0) = 8001
    /\ Warns(warnings, "High client usage")

\* C10: check_health returns a list for every reply of the clients category, a
\* reported maxclients of 0 included: computing client saturation never faults.
C10_ClientUsageNeverFaults ==
    exit # "ZeroDivisionError"

\* the documented default of each field a reply may omit, by the type of the value:
\* <<category, field of the reply, field of the structure, default>>
IntDefaults ==
    {<<"server", "uptime_in_days", "uptime_days", 0>>,
     <<"server", "uptime_in_seconds", "uptime_seconds", 0>>,
     <<"memory", "used_memory", "used_memory_mb", 0>>,
     <<"memory", "mem_fragmentation_ratio", "fragmentation_ratio", 0>>,
     <<"memory", "evicted_keys", "evicted_keys", 0>>,
     <<"stats", "total_connections_received", "total_connections", 0>>,
     <<"stats", "total_commands_processed", "total_commands", 0>>,
     <<"stats", "instantaneous_ops_per_sec", "ops_per_sec", 0>>,
     <<"stats", "rejected_connections", "rejected_connections", 0>>,
     <<"stats", "keyspace_hits", "keyspace_hits", 0>>,
     <<"stats", "keyspace_misses", "keyspace_misses", 0>>,
     <<"clients", "connected_clients", "connected_clients", 0>>,
     <<"clients", "blocked_clients", "blocked_clients", 0>>,
     <<"clients", "maxclients", "max_clients", 10000>>,
     <<"replication", "connected_slaves", "connected_slaves", 0>>,
     <<"persistence", "rdb_last_save_time", "rdb_last_save", 0>>}

StringDefaults ==
    {<<"server", "redis_version", "version", "Unknown">>,
     <<"server", "os", "os", "Unknown">>,
     <<"memory", "used_memory_human", "used_memory_human", "N/A">>,
     <<"replication", "role", "role", "unknown">>,
     <<"replication", "master_link_status", "master_link_status", "unknown">>,
     <<"replication", "master_host", "master_host", "unknown">>}

BoolDefaults ==
    {<<"persistence", "rdb_bgsave_in_progress", "rdb_enabled", TRUE>>,
     <<"persistence", "aof_enabled", "aof_enabled", FALSE>>,
     <<"persistence", "aof_rewrite_in_progress", "aof_rewrite_in_progress", FALSE>>}

\* the structure fetched for a category: by the dashboard, by check_health
ShownInfo(cat) == IF cat = "stats" THEN shown.stats.stats ELSE shown[cat]

CheckedInfo(cat) == checked[cat]

\* the structure holds the default wherever the reply omitted the field (a
\* replication structure has only the fields of its role)
HoldsDefault(row) ==
    /\ (/\ row[1] \in DOMAIN shown
        /\ row[2] \notin DOMAIN src[row[1]]
        /\ row[3] \in DOMAIN ShownInfo(row[1]))
       => ShownInfo(row[1])[row[3]] = row[4]
    /\ (/\ row[1] \in DOMAIN checked
        /\ row[2] \notin DOMAIN src[row[1]]
        /\ row[3] \in DOMAIN CheckedInfo(row[1]))
       => CheckedInfo(row[1])[row[3]] = row[4]

AllAbsent == \A cat \in Categories : src[cat] = EmptyDict

\* C7: whatever subset of a category's fields the source leaves out, the get_*
\* structure holds the documented default for each omitted field (an absent
\* maxmemory shows as "Not set", a reply without role has only role = "unknown"),
\* no fault comes of an omitted field, and the cycle in which every field of every
\* category is absent completes with an empty warning list.
C7_OmittedFieldsDefault ==
    /\ \A row \in IntDefaults : HoldsDefault(row)
    /\ \A row \in StringDefaults : HoldsDefault(row)
    /\ \A row \in BoolDefaults : HoldsDefault(row)
    /\ ("memory" \in DOMAIN shown /\ "maxmemory" \notin DOMAIN src.memory)
       => shown.memory.maxmemory_mb = <<"Not set">>
    /\ ("replication" \in DOMAIN shown /\ "role" \notin DOMAIN src.replication)
       => DOMAIN shown.replication = {"role"}
    /\ exit \in {"running", "return", "ZeroDivisionError"}
    /\ exit = "ZeroDivisionError"
       => ("maxclients" \in DOMAIN src.clients /\ src.clients.maxclients = 0)
    /\ (AllAbsent /\ pc = "exited") => (exit = "return" /\ shown.warnings = <<>>)

C7_Witness ==
    /\ AllAbsent
    /\ exit = "return"
    /\ shown.warnings = <<>>
    /\ shown.clients.max_clients = 10000

\* C8: when the slow-entries query faults, get_slow_log gives an empty list and
\* nothing is raised: the cycle moves on to check_health with the rest of the
\* dashboard untouched, and the warnings it presents are the ones the rules give
\* for what check_health fetched, as in a cycle without the fault.
C8_SlowLogFaultDegrades ==
    /\ [][(/\ pc = "slow_log"
           /\ ~(src.up /\ src.slowlog_ok)
           /\ pc' # "slow_log"
           /\ ~Cancel)
          => (/\ pc' = "health_memory"
              /\ exit' = "running"
              /\ slowFault'
              /\ shown' = ("slow_queries" :> <<>>) @@ shown)]_vars
    /\ [](Presented => /\ shown.warnings = Analyze(checked)
                       /\ slowFault => shown.slow_queries = <<>>)

C8_Witness ==
    /\ slowFault
    /\ Presented
    /\ shown.slow_queries = <<>>
    /\ shown.warnings = <<<<"Replication link DOWN">>>>

\* C9: in continuous mode a Ctrl+C at any point of the loop (collection,
\* presentation, the sleep with time still to go) is always possible and leads
\* straight to sys.exit(0): no further cycle, no exception out of the process;
\* a new cycle starts only when the one before has been presented and its
\* interval has elapsed; the loop never returns by itself.
C9_CancellationStopsCleanly ==
    /\ [][(Cancel /\ mode = "continuous" /\ pc # "connect")
          => (pc' = "exited" /\ exit' = "sys.exit(0)" /\ cycles' = cycles)]_vars
    /\ [][pc = "exited" => (pc' = "exited" /\ exit' = exit /\ cycles' = cycles)]_vars
    /\ [][cycles' # cycles
          => /\ cycles' = cycles + 1
             /\ pc = "connect" \/ (pc = "sleep" /\ sleepLeft = 0 /\ Presented)]_vars
    /\ []((mode = "continuous" /\ pc \notin {"connect", "exited"}) => ENABLED Cancel)
    /\ [](mode = "continuous" => exit # "return")
    /\ []((mode = "continuous" /\ exit = "KeyboardInterrupt") => cycles = 0)

C9_Witness ==
    /\ mode = "continuous"
    /\ pc = "exited"
    /\ exit = "sys.exit(0)"
    /\ Presented
    /\ sleepLeft > 0
    /\ sleepLeft < DefaultInterval

====
